---- MODULE Spec2Model ----
(***************************************************************************)
(* RESP decoder of src/resp/mod.rs (nom 8 parser combinators over &str).   *)
(*                                                                         *)
(* An input is a sequence of characters.  Every character is one string;   *)
(* MB stands for a character whose UTF-8 encoding takes two bytes, so that *)
(* the number of characters and the number of bytes of a &str can differ.  *)
(* i64 and isize are both 64 bits wide on the targets the crate is built   *)
(* for; the model keeps the two's-complement arithmetic and narrows the    *)
(* width to IntBits so that the extreme values stay inside TLC's integers. *)
(***************************************************************************)
EXTENDS Integers, Sequences, FiniteSets, TLC

\* ---------------------------------------------------------------- bounds
IntBits == 7          \* width of i64 / isize / usize in the model
MaxNodes == 3         \* frames (leaves and array headers) in a generated input
MaxBody == 2          \* characters between tag and terminator of a raw header
IntSlack == 12        \* integer literals tried beyond each end of the range

\* ------------------------------------------------------------ characters
CR == "\r"
LF == "\n"
MB == "U+00E9"
CRLF == <<CR, LF>>

len_utf8(c) == IF c = MB THEN 2 ELSE 1

RECURSIVE ByteLen(_)
ByteLen(s) == IF s = <<>> THEN 0 ELSE len_utf8(Head(s)) + ByteLen(Tail(s))

Digits == {"0", "1", "2", "3", "4", "5", "6", "7", "8", "9"}

to_digit(c) ==
  CASE c = "0" -> 0 [] c = "1" -> 1 [] c = "2" -> 2 [] c = "3" -> 3
    [] c = "4" -> 4 [] c = "5" -> 5 [] c = "6" -> 6 [] c = "7" -> 7
    [] c = "8" -> 8 [] c = "9" -> 9

Max(a, b) == IF a >= b THEN a ELSE b

\* --------------------------------------------------------------- integers
IntMax == 2 ^ (IntBits - 1) - 1
IntMin == -(2 ^ (IntBits - 1))
UsizeModulus == 2 ^ IntBits

\* Option<T>
None == [some |-> FALSE]
Some(x) == [some |-> TRUE, v |-> x]

checked_mul(a, b) == IF a * b > IntMax \/ a * b < IntMin THEN None ELSE Some(a * b)
checked_add(a, b) == IF a + b > IntMax \/ a + b < IntMin THEN None ELSE Some(a + b)
checked_sub(a, b) == IF a - b > IntMax \/ a - b < IntMin THEN None ELSE Some(a - b)

\* `len as usize`: reinterpretation of the two's-complement bits
as_usize(len) == IF len < 0 THEN len + UsizeModulus ELSE len

\* ------------------------------------------------------------- RespValue
SimpleString(s) == [t |-> "SimpleString", s |-> s]
Error(s) == [t |-> "Error", s |-> s]
Integer(n) == [t |-> "Integer", n |-> n]
BulkString(o) == [t |-> "BulkString", o |-> o]
Array(o) == [t |-> "Array", o |-> o]

\* size_of::<RespValue>() in the units of the narrowed address space
ElemSize == 2

\* ---------------------------------------------------------------- IResult
\* Ok((rest, val)) | Err(Err::Error(Error{input: at, code})) |
\* Err(Err::Incomplete(Needed)) | a panic unwinding out of the call.
\* depth counts the activations of `array` that were on the stack at once.
NoValue == [t |-> "NoValue"]
Ok(rest, val) ==
  [kind |-> "Ok", val |-> val, rest |-> rest, code |-> "", at |-> <<>>, depth |-> 0]
ErrError(at, code) ==
  [kind |-> "Error", val |-> NoValue, rest |-> <<>>, code |-> code, at |-> at, depth |-> 0]
ErrIncomplete(at) ==
  [kind |-> "Incomplete", val |-> NoValue, rest |-> <<>>, code |-> "Needed", at |-> at, depth |-> 0]
Panic(msg) ==
  [kind |-> "Panic", val |-> NoValue, rest |-> <<>>, code |-> msg, at |-> <<>>, depth |-> 0]

Suffix(i, from) == SubSeq(i, from, Len(i))

\* --------------------------------------------------------- nom primitives
\* nom::bytes::tag of a one-character tag, in the mode of the enclosing parser
tag(mode, t, i) ==
  IF i # <<>> /\ Head(i) = t THEN Ok(Tail(i), t)
  ELSE IF i = <<>> /\ mode = "Streaming" THEN ErrIncomplete(i)
  ELSE ErrError(i, "Tag")

\* a terminator check that leaves the line feed in the input
crlf_keeps_lf(i) ==
  IF Len(i) >= 2 /\ SubSeq(i, 1, 2) = CRLF THEN Ok(Suffix(i, 2), CRLF)
  ELSE ErrError(i, "CrLf")

\* nom::character::complete::crlf
crlf(i) ==
  IF Len(i) >= 2 /\ SubSeq(i, 1, 2) = CRLF THEN Ok(Suffix(i, 3), CRLF)
  ELSE ErrError(i, "CrLf")

\* FindSubstring::find_substring: index of the first occurrence, 0 for none
RECURSIVE find_substring(_, _, _)
find_substring(i, sub, from) ==
  IF from + Len(sub) - 1 > Len(i) THEN 0
  ELSE IF SubSeq(i, from, from + Len(sub) - 1) = sub THEN from
  ELSE find_substring(i, sub, from + 1)

\* nom::bytes::take_until
take_until(mode, sub, i) ==
  LET index == find_substring(i, sub, 1) IN
    IF index = 0
      THEN IF mode = "Streaming" THEN ErrIncomplete(i) ELSE ErrError(i, "TakeUntil")
      ELSE Ok(Suffix(i, index), SubSeq(i, 1, index - 1))

\* nom::bytes::take on &str: slice_index counts characters, not bytes
take(mode, count, i) ==
  IF Len(i) >= count THEN Ok(Suffix(i, count + 1), SubSeq(i, 1, count))
  ELSE IF mode = "Streaming" THEN ErrIncomplete(i)
  ELSE ErrError(i, "Eof")

\* a sign parser that knows the minus sign only
sign_minus_only(i) ==
  IF i # <<>> /\ Head(i) = "-" THEN Ok(Tail(i), FALSE) ELSE Ok(i, TRUE)

\* nom::character::complete::sign: opt(alt(("-" => false, "+" => true)))
sign(i) ==
  IF i # <<>> /\ Head(i) = "-" THEN Ok(Tail(i), FALSE)
  ELSE IF i # <<>> /\ Head(i) = "+" THEN Ok(Tail(i), TRUE)
  ELSE Ok(i, TRUE)

\* a digit loop that accumulates the magnitude and applies the sign last
accumulate_magnitude(positive, value, d) ==
  LET a == IF value < 0 THEN -value ELSE value
      m == checked_mul(a, 10)
      r == IF m.some THEN checked_add(m.v, d) ELSE None
  IN IF ~r.some THEN None ELSE IF positive THEN r ELSE Some(-r.v)

\* one step of the digit loop of the ints! macro
accumulate(positive, value, d) ==
  LET m == checked_mul(value, 10) IN
    IF ~m.some THEN None
    ELSE IF positive THEN checked_add(m.v, d) ELSE checked_sub(m.v, d)

RECURSIVE ints_loop(_, _, _, _, _)
ints_loop(input, i, pos, positive, value) ==
  IF pos > Len(i) THEN Ok(<<>>, value)
  ELSE IF i[pos] \notin Digits
    THEN IF pos = 1 THEN ErrError(input, "Digit") ELSE Ok(Suffix(i, pos), value)
  ELSE LET v == accumulate(positive, value, to_digit(i[pos])) IN
    IF ~v.some THEN ErrError(input, "Digit")
    ELSE ints_loop(input, i, pos + 1, positive, v.v)

\* nom::character::complete::{i64, isize}, both expanded from ints!
ints(input) ==
  LET s == sign(input) IN
    IF s.rest = <<>> THEN ErrError(input, "Digit")
    ELSE ints_loop(input, s.rest, 1, s.val, 0)

i64(input) == ints(input)
isize(input) == ints(input)

\* ------------------------------------------------------- nom combinators
\* The combinators take the results of their sub-parsers; a caller feeds
\* each sub-parser the remainder of the one before it.
delimited(r1, r2, r3) ==
  IF r1.kind # "Ok" THEN r1
  ELSE IF r2.kind # "Ok" THEN r2
  ELSE IF r3.kind # "Ok" THEN r3
  ELSE Ok(r3.rest, r2.val)

terminated(r1, r2) ==
  IF r1.kind # "Ok" THEN r1
  ELSE IF r2.kind # "Ok" THEN r2
  ELSE Ok(r2.rest, r1.val)

\* complete(p): p runs in Complete mode and Incomplete becomes an Error
complete(i, r) == IF r.kind = "Incomplete" THEN ErrError(i, "Complete") ELSE r

map(r, val) == IF r.kind = "Ok" THEN [r EXCEPT !.val = val] ELSE r

\* ParseError::or and ParseError::append of nom::error::Error
or(e1, e2) == e2
append(i, code, e) == e

\* --------------------------------------------------------- leaf decoders
simple_string(i) ==
  LET r1 == tag("Complete", "+", i)
      r2 == take_until("Complete", CRLF, r1.rest)
      r3 == crlf(r2.rest)
      r == complete(i, delimited(r1, r2, r3))
  IN map(r, SimpleString(r.val))

error(i) ==
  LET r1 == tag("Complete", "-", i)
      r2 == take_until("Complete", CRLF, r1.rest)
      r3 == crlf(r2.rest)
      r == complete(i, delimited(r1, r2, r3))
  IN map(r, Error(r.val))

integer(i) ==
  LET r1 == tag("Complete", ":", i)
      r2 == i64(r1.rest)
      r3 == crlf(r2.rest)
      r == complete(i, delimited(r1, r2, r3))
  IN map(r, Integer(r.val))

\* complete(delimited(tag(t), isize, crlf)): header of a bulk string or array
header(t, i) ==
  LET r1 == tag("Complete", t, i)
      r2 == isize(r1.rest)
      r3 == crlf(r2.rest)
  IN complete(i, delimited(r1, r2, r3))

\* a bulk string decoder that takes every length below one for null
bulk_string_null_on_zero(i) ==
  LET h == header("$", i)
      r1 == take("Streaming", as_usize(h.val), h.rest)
      r2 == crlf(r1.rest)
      r == terminated(r1, r2)
  IN IF h.kind # "Ok" THEN h
     ELSE IF h.val <= 0 THEN Ok(h.rest, BulkString(None))
     ELSE map(r, BulkString(Some(r.val)))

bulk_string(i) ==
  LET h == header("$", i)
      r1 == take("Streaming", as_usize(h.val), h.rest)
      r2 == crlf(r1.rest)
      r == terminated(r1, r2)
  IN IF h.kind # "Ok" THEN h
     ELSE IF h.val = -1 THEN Ok(h.rest, BulkString(None))
     ELSE map(r, BulkString(Some(r.val)))

\* -------------------------------------------------------------- array
\* Vec::with_capacity: TRUE when the layout exceeds isize::MAX bytes and the
\* call panics with "capacity overflow".  A request with a valid layout is
\* taken to be satisfied by the allocator.
with_capacity_panics(capacity) == capacity * ElemSize > IntMax

\* the iterations of an inclusive range 0..=len
range_len_inclusive(len) == IF len >= 0 THEN len + 1 ELSE 0

\* number of iterations of `for _ in 0..len`
range_len(len) == IF len > 0 THEN len ELSE 0

RECURSIVE array(_)

\* alt((simple_string, error, integer, bulk_string, array))
alt(i) ==
  LET r1 == simple_string(i) IN
  IF r1.kind # "Error" THEN r1 ELSE
  LET r2 == error(i) IN
  IF r2.kind # "Error" THEN r2 ELSE
  LET r3 == integer(i) IN
  IF r3.kind # "Error" THEN r3 ELSE
  LET r4 == bulk_string(i) IN
  IF r4.kind # "Error" THEN r4 ELSE
  LET r5 == array(i) IN
  IF r5.kind # "Error" THEN r5
  ELSE append(i, "Alt", or(or(or(or(r1, r2), r3), r4), r5))

RECURSIVE array_loop(_, _, _, _, _)
array_loop(n, k, rset, vec, depth) ==
  IF k >= n THEN [Ok(rset, Array(Some(vec))) EXCEPT !.depth = 1 + depth]
  ELSE LET r == alt(rset) IN
    IF r.kind # "Ok" THEN [r EXCEPT !.depth = 1 + Max(depth, r.depth)]
    ELSE array_loop(n, k + 1, r.rest, Append(vec, r.val), Max(depth, r.depth))

array(i) ==
  LET h == header("*", i) IN
    IF h.kind # "Ok" THEN [h EXCEPT !.depth = 1]
    ELSE IF h.val = -1 THEN [Ok(h.rest, Array(None)) EXCEPT !.depth = 1]
    ELSE IF with_capacity_panics(as_usize(h.val))
      THEN [Panic("capacity overflow") EXCEPT !.depth = 1]
    ELSE array_loop(range_len(h.val), 0, h.rest, <<>>, 0)

\* ------------------------------------------------- the peer's wire format
\* What the sending side puts into the buffer: the frames of the encoding
\* that the doc comments of the five decoders describe (a simple string or
\* error without CR or LF, a bulk string prefixed by its number of bytes, an
\* array prefixed by its number of elements), and arbitrary junk (Raw).
Raw(s) == [t |-> "Raw", s |-> s]

DigitChar(d) == CHOOSE c \in Digits : to_digit(c) = d

RECURSIVE digits_of(_)
digits_of(n) ==
  IF n < 10 THEN <<DigitChar(n)>> ELSE digits_of(n \div 10) \o <<DigitChar(n % 10)>>

decimal(n) == IF n < 0 THEN <<"-">> \o digits_of(-n) ELSE digits_of(n)

RECURSIVE encode(_), encode_all(_)
encode(v) ==
  CASE v.t = "SimpleString" -> <<"+">> \o v.s \o CRLF
    [] v.t = "Error" -> <<"-">> \o v.s \o CRLF
    [] v.t = "Integer" -> <<":">> \o decimal(v.n) \o CRLF
    [] v.t = "BulkString" ->
         IF v.o.some THEN <<"$">> \o decimal(ByteLen(v.o.v)) \o CRLF \o v.o.v \o CRLF
         ELSE <<"$", "-", "1">> \o CRLF
    [] v.t = "Array" ->
         IF v.o.some THEN <<"*">> \o decimal(Len(v.o.v)) \o CRLF \o encode_all(v.o.v)
         ELSE <<"*", "-", "1">> \o CRLF
    [] v.t = "Raw" -> v.s
encode_all(vs) == IF vs = <<>> THEN <<>> ELSE encode(Head(vs)) \o encode_all(Tail(vs))

RECURSIVE WellFormed(_)
WellFormed(v) ==
  CASE v.t \in {"SimpleString", "Error"} -> \A k \in DOMAIN v.s : v.s[k] \notin {CR, LF}
    [] v.t = "Integer" -> v.n >= IntMin /\ v.n <= IntMax
    [] v.t = "BulkString" -> TRUE
    [] v.t = "Array" -> v.o.some => \A k \in DOMAIN v.o.v : WellFormed(v.o.v[k])
    [] v.t = "Raw" -> FALSE

\* the decoder that belongs to a frame's tag
DecoderOf(v) ==
  CASE v.t = "SimpleString" -> "simple_string"
    [] v.t = "Error" -> "error"
    [] v.t = "Integer" -> "integer"
    [] v.t = "BulkString" -> "bulk_string"
    [] v.t = "Array" -> "array"
    [] v.t = "Raw" -> "none"

\* frames that may occur as array elements
ElemLeaves ==
  { SimpleString(<<"a">>), Error(<<"a">>), Integer(-1),
    BulkString(Some(<<"a">>)), BulkString(Some(<<MB>>)), BulkString(None),
    Array(None),
    Raw(<<":", "x", CR, LF>>), Raw(<<"$", "-", "2", CR, LF>>),
    Raw(<<"*", "-", "2", CR, LF>>), Raw(<<"?">>) }

RECURSIVE Tree(_), Forest(_)
Tree(n) ==
  IF n = 1 THEN ElemLeaves \cup {Array(Some(<<>>))}
  ELSE { Array(Some(f)) : f \in Forest(n - 1) }
Forest(m) ==
  IF m = 0 THEN {<<>>}
  ELSE UNION { { <<v>> \o f : v \in Tree(k), f \in Forest(m - k) } : k \in 1..m }

Trees == UNION { Tree(n) : n \in 1..MaxNodes }

\* frames that are only sent on their own
SimplePayloads == { <<>>, <<CR>>, <<LF>>, <<"a", CR>>, <<MB>>, <<LF, CR>> }
BulkPayloads == { <<>>, <<CR>>, CRLF, <<CR, LF, "a">>, <<"a", MB>>, <<MB, MB>>, <<"a", "a">> }
TopLeaves ==
  { SimpleString(s) : s \in SimplePayloads } \cup { Error(s) : s \in SimplePayloads }
    \cup { BulkString(Some(s)) : s \in BulkPayloads }
    \cup { Integer(n) : n \in (IntMin - IntSlack)..(IntMax + IntSlack) }
    \cup { Raw(<<"$", "1", CR, LF, MB, CR, LF>>), Raw(<<"$", "2", CR, LF, "a", MB, CR, LF>>) }
    \cup { Raw(<<c>> \o decimal(n) \o CRLF) : c \in {"$", "*"}, n \in {IntMin, IntMax} }

\* raw headers: a first character, a body, a terminator and a tail
FirstChars == {"+", ":", "$", "*", "?"}
BodyChars == {"-", "+", "0", "1", "9", "a", " "}
RECURSIVE Strings(_, _)
Strings(S, n) ==
  IF n = 0 THEN {<<>>}
  ELSE Strings(S, n - 1) \cup { <<c>> \o s : c \in S, s \in Strings(S, n - 1) }
Terminators == { CRLF, <<CR>>, <<LF>>, <<>> }
Tails == { <<>>, CRLF, <<"a">> \o CRLF }
RawHeaders ==
  { Raw(<<c>> \o b \o e \o x) :
      c \in FirstChars, b \in Strings(BodyChars, MaxBody), e \in Terminators, x \in Tails }

Sendable == Trees \cup TopLeaves \cup RawHeaders
Trailers == { <<>>, CRLF, <<"+", "a">> \o CRLF }

\* ------------------------------------------------------------------ state
VARIABLES
  sent,    \* what the peer wrote: frame v, trailing bytes t, bytes delivered
  buf,     \* the input the caller passes to its next decode call
  op,      \* the decoder called last
  arg,     \* the input of that call
  res      \* the IResult of that call

vars == <<sent, buf, op, arg, res>>

Init ==
  /\ \E v \in Sendable :
       \/ \E t \in Trailers :
            sent = [v |-> v, t |-> t, cut |-> Len(encode(v) \o t)]
       \/ \E n \in 0..(Len(encode(v)) - 1) :
            sent = [v |-> v, t |-> <<>>, cut |-> n]
  /\ buf = SubSeq(encode(sent.v) \o sent.t, 1, sent.cut)
  /\ op = "none"
  /\ arg = <<>>
  /\ res = Ok(buf, NoValue)

\* one call of a decoder on the caller's buffer; a caller that loops (as
\* many0 does) goes on from the remainder of a successful call
Call(name, r) ==
  /\ res.kind # "Panic"
  /\ op' = name
  /\ arg' = buf
  /\ res' = r
  /\ buf' = IF r.kind = "Ok" THEN r.rest ELSE buf
  /\ UNCHANGED sent

SimpleStringCall == Call("simple_string", simple_string(buf))
ErrorCall == Call("error", error(buf))
IntegerCall == Call("integer", integer(buf))
BulkStringCall == Call("bulk_string", bulk_string(buf))
ArrayCall == Call("array", array(buf))

Next == SimpleStringCall \/ ErrorCall \/ IntegerCall \/ BulkStringCall \/ ArrayCall

Spec == Init /\ [][Next]_vars

TypeOK ==
  /\ op \in {"none", "simple_string", "error", "integer", "bulk_string", "array"}
  /\ res.kind \in {"Ok", "Error", "Incomplete", "Panic"}

\* ----------------------------------------------------------- properties
Called == op # "none"
Delivered == encode(sent.v) \o sent.t
Whole == sent.cut = Len(Delivered)
StartsWith(i, p) == Len(i) >= Len(p) /\ SubSeq(i, 1, Len(p)) = p
IsSuffix(r, i) == Len(r) <= Len(i) /\ Suffix(i, Len(i) - Len(r) + 1) = r
Tags == {"+", "-", ":", "$", "*"}

\* the decoder selected by the leading tag byte (spec 4.6)
Dispatch(i) ==
  CASE i # <<>> /\ Head(i) = "+" -> simple_string(i)
    [] i # <<>> /\ Head(i) = "-" -> error(i)
    [] i # <<>> /\ Head(i) = ":" -> integer(i)
    [] i # <<>> /\ Head(i) = "$" -> bulk_string(i)
    [] i # <<>> /\ Head(i) = "*" -> array(i)
    [] OTHER -> ErrError(i, "Tag")

\* C1: a well-formed frame followed by any trailing bytes decodes, with the
\* decoder of its kind, to the frame's value and leaves exactly the trailing
\* bytes as the remainder.
C1_PrefixDeterminism ==
  (op = DecoderOf(sent.v) /\ WellFormed(sent.v) /\ Whole /\ arg = Delivered)
    => (res.kind = "Ok" /\ res.val = sent.v /\ res.rest = sent.t)

\* C2: a header with length -1 gives the null value and consumes the header
\* only; length 0 gives the present empty value (for a bulk string after one
\* more CRLF); null and empty differ.
C2_NullIsNotEmpty ==
  /\ (op = "bulk_string" /\ StartsWith(arg, <<"$", "-", "1", CR, LF>>))
       => (res.kind = "Ok" /\ res.val = BulkString(None) /\ res.rest = Suffix(arg, 6))
  /\ (op = "bulk_string" /\ StartsWith(arg, <<"$", "0", CR, LF>>))
       => IF StartsWith(arg, <<"$", "0", CR, LF, CR, LF>>)
            THEN res.kind = "Ok" /\ res.val = BulkString(Some(<<>>))
                 /\ res.rest = Suffix(arg, 7)
            ELSE res.kind # "Ok"
  /\ (op = "array" /\ StartsWith(arg, <<"*", "-", "1", CR, LF>>))
       => (res.kind = "Ok" /\ res.val = Array(None) /\ res.rest = Suffix(arg, 6))
  /\ (op = "array" /\ StartsWith(arg, <<"*", "0", CR, LF>>))
       => (res.kind = "Ok" /\ res.val = Array(Some(<<>>)) /\ res.rest = Suffix(arg, 5))
  /\ (Called /\ res.kind = "Ok" /\ res.val.t \in {"BulkString", "Array"} /\ ~res.val.o.some)
       => (res.val # BulkString(Some(<<>>)) /\ res.val # Array(Some(<<>>)))

C2_Witness ==
  /\ op = "bulk_string"
  /\ arg = <<"$", "-", "1", CR, LF, CR, LF>>
  /\ res.kind = "Ok" /\ res.val = BulkString(None) /\ res.rest = CRLF

\* C3: a present bulk string payload has exactly the declared number of
\* bytes and is followed by the CRLF that ends the frame.
C3_PayloadHasDeclaredBytes ==
  (op = "bulk_string" /\ res.kind = "Ok" /\ res.val.o.some)
    => LET h == header("$", arg) IN
         /\ h.val >= 0
         /\ ByteLen(res.val.o.v) = h.val
         /\ h.rest = res.val.o.v \o CRLF \o res.rest

\* C4: a present array has exactly the declared number of elements, element
\* k is the frame decoded from the remainder left by element k-1, and the
\* array's remainder is the one left by the last element.
RECURSIVE Threaded(_, _, _)
Threaded(rset, elems, final) ==
  IF elems = <<>> THEN rset = final
  ELSE LET d == Dispatch(rset) IN
    d.kind = "Ok" /\ d.val = Head(elems) /\ Threaded(d.rest, Tail(elems), final)

C4_ArrayElements ==
  (op = "array" /\ res.kind = "Ok" /\ res.val.o.some)
    => LET h == header("*", arg) IN
         /\ h.kind = "Ok" /\ h.val >= 0
         /\ Len(res.val.o.v) = h.val
         /\ Threaded(h.rest, res.val.o.v, res.rest)

C4_Witness ==
  /\ op = "array" /\ res.kind = "Ok" /\ res.val.o.some
  /\ Len(res.val.o.v) = 2
  /\ res.val.o.v[1] = Array(Some(<<>>))
  /\ res.val.o.v[2] = BulkString(None)
  /\ res.rest = CRLF

\* C5: malformed input (empty, wrong tag, no terminator, a non-numeric
\* length or integer, a negative length other than -1, a length beyond what
\* the input supplies) makes every decoder return a failure value; no call
\* panics.
NegativeLength(name, i) ==
  LET h == header(IF name = "array" THEN "*" ELSE "$", i) IN
    name \in {"bulk_string", "array"} /\ h.kind = "Ok" /\ h.val < -1
TagOf(name) ==
  CASE name = "simple_string" -> "+" [] name = "error" -> "-"
    [] name = "integer" -> ":" [] name = "bulk_string" -> "$"
    [] name = "array" -> "*"
NonNumeric(name, i) ==
  /\ name \in {"integer", "bulk_string", "array"}
  /\ Len(i) < 2 \/ i[2] \notin Digits \cup {"-", "+"}
Oversized(name, i) ==
  LET h == header(IF name = "array" THEN "*" ELSE "$", i) IN
    /\ name \in {"bulk_string", "array"} /\ h.kind = "Ok"
    /\ IF name = "array" THEN h.val > 0 /\ ByteLen(h.rest) < 3 * h.val
       ELSE h.val >= 0 /\ ByteLen(h.rest) < h.val + 2
Malformed(name, i) ==
  \/ i = <<>>
  \/ Head(i) # TagOf(name)
  \/ find_substring(i, CRLF, 1) = 0
  \/ NonNumeric(name, i)
  \/ NegativeLength(name, i)
  \/ Oversized(name, i)

C5_MalformedFailsCleanly ==
  Called => /\ res.kind # "Panic"
            /\ Malformed(op, arg) => res.kind \in {"Error", "Incomplete"}

\* C6: every integer of the signed range round-trips through its decimal
\* text, the two extremes included, and a literal outside the range fails.
C6_IntegerRoundTrip ==
  (op = "integer" /\ sent.v.t = "Integer" /\ Whole /\ arg = Delivered)
    => IF sent.v.n >= IntMin /\ sent.v.n <= IntMax
         THEN res.kind = "Ok" /\ res.val = Integer(sent.v.n) /\ res.rest = sent.t
         ELSE res.kind \in {"Error", "Incomplete"}

C6_Witness ==
  /\ op = "integer" /\ sent.v = Integer(IntMin) /\ Whole /\ arg = Delivered
  /\ res.kind = "Ok" /\ res.val = Integer(IntMin)

\* the integer grammar, read off the text: position after the digit run
RECURSIVE DigitRunEnd(_, _)
DigitRunEnd(i, from) ==
  IF from <= Len(i) /\ i[from] \in Digits THEN DigitRunEnd(i, from + 1) ELSE from
RECURSIVE DecimalValue(_)
DecimalValue(ds) ==
  IF ds = <<>> THEN 0
  ELSE 10 * DecimalValue(SubSeq(ds, 1, Len(ds) - 1)) + to_digit(ds[Len(ds)])
IntegerGrammar(i, signs) ==
  /\ i # <<>> /\ Head(i) = ":"
  /\ LET from == IF Len(i) >= 2 /\ i[2] \in signs THEN 3 ELSE 2
         to == DigitRunEnd(i, from)
         n == DecimalValue(SubSeq(i, from, to - 1))
     IN /\ to > from
        /\ IF from = 3 /\ i[2] = "-" THEN -n >= IntMin ELSE n <= IntMax
        /\ StartsWith(Suffix(i, to), CRLF)

RECURSIVE FirstFailing(_, _)
FirstFailing(rset, n) ==
  IF n = 0 THEN Ok(rset, NoValue)
  ELSE LET d == Dispatch(rset) IN
    IF d.kind = "Ok" THEN FirstFailing(d.rest, n - 1)
    ELSE [d EXCEPT !.rest = rset]

C8_ElementFailureVerbatim ==
  LET h == header("*", arg) IN
    (op = "array" /\ h.kind = "Ok" /\ h.val > 0)
      => LET f == FirstFailing(h.rest, h.val) IN
           (f.kind # "Ok" /\ f.rest # <<>> /\ Head(f.rest) \in Tags)
             => (res.kind = f.kind /\ res.code = f.code /\ res.at = f.at)

\* C9: a strict prefix of a well-formed frame fails the way a malformed
\* frame does, with Err::Error.
C9_IncompleteLooksMalformed ==
  (op = DecoderOf(sent.v) /\ WellFormed(sent.v) /\ ~Whole /\ arg = SubSeq(Delivered, 1, sent.cut))
    => res.kind = "Error"

\* C10: a successful call leaves a proper suffix of its input, at least
\* three characters shorter, and the activations of array nested below the
\* outermost one never outnumber the array tags of the input.
RECURSIVE Count(_, _)
Count(c, i) ==
  IF i = <<>> THEN 0 ELSE (IF Head(i) = c THEN 1 ELSE 0) + Count(c, Tail(i))

C10_Progress ==
  Called =>
    /\ res.kind = "Ok" => (IsSuffix(res.rest, arg) /\ Len(arg) - Len(res.rest) >= 3
                            /\ ByteLen(arg) - ByteLen(res.rest) >= 3 /\ buf = res.rest)
    /\ res.kind # "Ok" => buf = arg
    /\ op = "array" => (res.depth >= 1 /\ res.depth - 1 <= Count("*", arg))
    /\ op # "array" => res.depth = 0

C10_Witness ==
  /\ op = "array" /\ res.kind = "Ok"
  /\ res.depth = 2 /\ Count("*", arg) = 2
  /\ res.rest = CRLF /\ buf = CRLF

====
